---- MODULE Spec2Model ----
(***************************************************************************)
(* Bookkeeping core of the vocabulary-learning server: points and badges   *)
(* (server/storage.ts), the daily-mix streak tracker, the learned-terms    *)
(* ledger and the request handlers that drive them (server/routes.ts).     *)
(*                                                                         *)
(* Tables are modelled by what the handlers read of them:                  *)
(*   users            userId -> [points, wordsLearned]                     *)
(*   badges           the ids of the catalog rows (names by BadgeName)     *)
(*   userBadges       userId -> badgeId -> number of rows                  *)
(*   dailyStreaks     sequence of rows, the serial id being the index      *)
(*   userLearnedTerms userId -> termId -> number of rows                   *)
(*   terms            sequence of rows (the department), id = index        *)
(*   dailyContent     sequence of rows [department, date, termId]          *)
(*   quizzes          the number of rows (no handler below reads them)     *)
(*   aiDuels, asyncBattles   sequences of rows, id = index                 *)
(* Columns no modelled handler reads back (users.streak, avgQuizScore,     *)
(* timestamps, question and answer payloads) are left out.  response is    *)
(* the answer to the latest request; learnedCalls records the run of       *)
(* consecutive identical mark-learned requests that ends in it.  reqUser   *)
(* is the users row passport loaded for a request that is still running,   *)
(* inflight what a handler that has done its read holds until its write.   *)
(* Calendar days are day numbers; the handlers' date strings compare equal *)
(* exactly when the day numbers do.  Every request handler is one action;  *)
(* save-streak is also given in two steps, load of req.user and handler,   *)
(* and the handlers that select and then write (daily content, mark        *)
(* learned, daily-mix status, battle join) also as their read and write.   *)
(***************************************************************************)
EXTENDS Integers, Sequences, FiniteSets, TLC

VARIABLES users, badges, userBadges, dailyStreaks, userLearnedTerms, terms,
          dailyContent, quizzes, aiDuels, asyncBattles, today, response,
          learnedCalls, reqUser, inflight

vars == <<users, badges, userBadges, dailyStreaks, userLearnedTerms, terms,
          dailyContent, quizzes, aiDuels, asyncBattles, today, response,
          learnedCalls, reqUser, inflight>>

\* The tables of the learned-terms ledger and the daily content cache, and
\* those of the quiz, duel and battle records.
learnVars == <<userLearnedTerms, terms, dailyContent>>
playVars == <<quizzes, aiDuels, asyncBattles>>

\* ------------------------------------------------------------------ bounds

\* Days run from 1 to MaxDay.
MaxDay == 4
\* No request is served that would take a balance above MaxPoints.
MaxPoints == 1100
\* A streak record is not advanced past MaxStreak completed days.
MaxStreak == 3
\* The longest run of completed days a streak record starts with.
MaxRun == 30
\* At most MaxSavers streak savers are bought per user.
MaxSavers == 1
\* At most MaxUserBadgeRows user_badges rows per (userId, badgeId).
MaxUserBadgeRows == 2

\* The terms table holds at most MaxTerms rows.
MaxTerms == 2
\* The quizzes table holds at most MaxQuizzes rows.
MaxQuizzes == 2

\* The ai_duels and the async_battles tables hold at most MaxDuels and
\* MaxBattles rows.
MaxDuels == 1
MaxBattles == 1

\* ------------------------------------------------------------ program data

\* SQL NULL of a nullable column (lastCompletedDate).
NULL == -1

\* The seeded accounts (admin, employee1).
Users == {1, 2}

\* A user id no users row has.
MissingUsers == {3}

\* Serial ids of the seeded badges that the handlers below can touch.
BadgeName(b) ==
    CASE b = 1 -> "First Steps"
      [] b = 5 -> "Shield"
      [] b = 6 -> "Medium Shield"
      [] b = 7 -> "Bronze Shield"

BadgeIds == {1, 5, 6, 7}

\* The catalog seedData creates, and a catalog that already held a row when
\* seedData ran (it adds nothing to a non-empty catalog), so that the point
\* badges are missing from it.
SeedBadges == {1, 5, 6, 7}
PartialBadges == {1}

pointBadges ==
    { [points |-> 300,  name |-> "Shield"],
      [points |-> 500,  name |-> "Medium Shield"],
      [points |-> 1000, name |-> "Bronze Shield"] }

xpCost == 50

\* The term ids a request can name (rows of terms, or not yet).
TermIds == 1..MaxTerms

\* ------------------------------------------------------------------ inputs

\* Balances user 1, and user 2, can have when the run starts.
InitPoints == {0, 950}
OtherPoints == {1000}

\* Request bodies of POST /api/user/points.
PointsInputs == {60, -60}

\* Request bodies {score, totalQuestions} of POST /api/daily-mix/complete.
MixInputs == { <<0, 5>>, <<5, 5>> }

\* ------------------------------------------------------- points and badges

\* The badges a user holds at `points` once every threshold was evaluated.
EarnedAt(cat, points) ==
    { b \in cat : \E pb \in pointBadges : pb.name = BadgeName(b) /\ points >= pb.points }

awardBadge(ub, userId, badgeId) ==
    [ub EXCEPT ![userId][badgeId] = @ + 1]

\* Mutant of checkAndAwardPointsBadges: a threshold counts only once exceeded.
checkAndAwardPointsBadgesStrict(us, ub, userId) ==
    IF userId \notin DOMAIN us
    THEN ub
    ELSE LET due == { b \in badges : \E pb \in pointBadges :
                        /\ pb.name = BadgeName(b)
                        /\ us[userId].points > pb.points
                        /\ ub[userId][b] = 0 }
         IN  [ub EXCEPT ![userId] =
                 [b \in BadgeIds |-> IF b \in due THEN ub[userId][b] + 1
                                                  ELSE ub[userId][b]]]

checkAndAwardPointsBadges(us, ub, userId) ==
    IF userId \notin DOMAIN us
    THEN ub
    ELSE LET badgeIds == { b \in BadgeIds : ub[userId][b] > 0 }
             due == { b \in EarnedAt(badges, us[userId].points) : b \notin badgeIds }
         IN  [ub EXCEPT ![userId] =
                 [b \in BadgeIds |-> IF b \in due THEN awardBadge(ub, userId, b)[userId][b]
                                                  ELSE ub[userId][b]]]

\* UPDATE users SET points = points + $1 WHERE id = $2: no row, no change.
IncrementPoints(us, userId, points) ==
    IF userId \in DOMAIN us
    THEN [us EXCEPT ![userId].points = @ + points]
    ELSE us

addPoints(us, ub, userId, points) ==
    LET us1 == IncrementPoints(us, userId, points)
    IN  [users |-> us1,
         userBadges |-> checkAndAwardPointsBadges(us1, ub, userId),
         found |-> userId \in DOMAIN us]

\* ------------------------------------------------------------ streak rows

NewStreakRow(userId) ==
    [userId |-> userId, currentStreak |-> 0, longestStreak |-> 0,
     lastCompletedDate |-> NULL, streakSaversUsed |-> 0, totalDaysCompleted |-> 0]

\* SELECT ... FROM daily_streaks WHERE user_id = $1, first row: its id, or 0.
StreakId(rows, userId) ==
    IF \E i \in DOMAIN rows : rows[i].userId = userId
    THEN CHOOSE i \in DOMAIN rows :
            /\ rows[i].userId = userId
            /\ \A j \in DOMAIN rows : rows[j].userId = userId => i <= j
    ELSE 0

\* The day before `day` as the handlers compute it.
yesterdayStr(day) == day - 1

Max(a, b) == IF a >= b THEN a ELSE b

\* Mutants of AlreadyCompleted: the same-day check missing, or made against
\* the previous day.
AlreadyCompletedNever(streak, day) == FALSE
AlreadyCompletedYesterday(streak, day) == streak.lastCompletedDate = yesterdayStr(day)

AlreadyCompleted(streak, day) == streak.lastCompletedDate = day

\* Mutant of NewStreak: a gap does not reset the streak.
NewStreakNoReset(streak, day) == streak.currentStreak + 1

NewStreak(streak, day) ==
    IF streak.lastCompletedDate = yesterdayStr(day)
    THEN streak.currentStreak + 1
    ELSE 1

\* Mutant of NewLongest: the longest streak is not raised.
NewLongestStale(streak, newStreak) == streak.longestStreak

NewLongest(streak, newStreak) == Max(streak.longestStreak, newStreak)

\* Mutant of BonusXP: the first milestone is paid from the third day on.
BonusXPFromThree(newStreak) ==
    CASE newStreak = 7  -> 100
      [] newStreak = 30 -> 500
      [] newStreak >= 3 -> 50
      [] OTHER -> 0

BonusXP(newStreak) ==
    CASE newStreak = 3  -> 50
      [] newStreak = 7  -> 100
      [] newStreak = 30 -> 500
      [] OTHER -> 0

\* newBadges: the badge name the completion answers with, if any.
NewBadges(newStreak) ==
    CASE newStreak = 3  -> <<"Streak Starter">>
      [] newStreak = 7  -> <<"Weekly Warrior">>
      [] newStreak = 30 -> <<"Monthly Master">>
      [] OTHER -> <<>>

\* Math.round((score / totalQuestions) * 30) for 0 <= score, 0 < totalQuestions.
BaseXP(score, totalQuestions) == (2 * 30 * score + totalQuestions) \div (2 * totalQuestions)

\* ----------------------------------------------------------- learned terms

RECURSIVE SumOver(_, _)
SumOver(f, S) ==
    IF S = {} THEN 0
    ELSE LET x == CHOOSE y \in S : TRUE IN f[x] + SumOver(f, S \ {x})

\* getUserLearnedTermIds(userId).length: the user's rows in user_learned_terms.
LearnedCount(ult, userId) == SumOver(ult[userId], DOMAIN ult[userId])

\* markTermAsLearned past its select: the insert, then wordsLearned is set to
\* the number of the user's rows.
markTermAsLearnedUnchecked(ult, us, userId, termId) ==
    LET ult1 == [ult EXCEPT ![userId][termId] = @ + 1]
    IN  [userLearnedTerms |-> ult1,
         users |-> [us EXCEPT ![userId].wordsLearned = LearnedCount(ult1, userId)],
         inserted |-> TRUE]

markTermAsLearned(ult, us, userId, termId) ==
    IF ult[userId][termId] > 0
    THEN [userLearnedTerms |-> ult, users |-> us, inserted |-> FALSE]
    ELSE LET ult1 == [ult EXCEPT ![userId][termId] = @ + 1]
         IN  [userLearnedTerms |-> ult1,
              users |-> [us EXCEPT ![userId].wordsLearned = LearnedCount(ult1, userId)],
              inserted |-> TRUE]

\* updateUserStats(userId, points, wordsLearned): both columns are incremented.
updateUserStats(us, userId, points, wordsLearned) ==
    [us EXCEPT ![userId].points = @ + points,
               ![userId].wordsLearned = @ + wordsLearned]

\* Mutant of getDailyContent: the lookup is made for the day before.
getDailyContentDayBefore(rows, department, date) ==
    IF \E i \in DOMAIN rows : rows[i].department = department /\ rows[i].date = date - 1
    THEN CHOOSE i \in DOMAIN rows :
            /\ rows[i].department = department /\ rows[i].date = date - 1
            /\ \A j \in DOMAIN rows :
                  (rows[j].department = department /\ rows[j].date = date - 1) => i <= j
    ELSE 0

\* getDailyContent(department, date): the id of the first matching row, or 0.
getDailyContent(rows, department, date) ==
    IF \E i \in DOMAIN rows : rows[i].department = department /\ rows[i].date = date
    THEN CHOOSE i \in DOMAIN rows :
            /\ rows[i].department = department /\ rows[i].date = date
            /\ \A j \in DOMAIN rows :
                  (rows[j].department = department /\ rows[j].date = date) => i <= j
    ELSE 0

\* ------------------------------------------------------- duels and battles

NewDuelRow(userId) ==
    [userId |-> userId, userScore |-> 0, aiScore |-> 0, wrongAnswers |-> 0,
     xpEarned |-> 0, completed |-> FALSE]

\* challengerScore is NOT NULL DEFAULT 0 and challengerAnswers NOT NULL
\* DEFAULT []; opponentScore, opponentAnswers and winnerId are nullable.
\* An answers array is modelled by its length.
NewBattleRow(challengerId, opponentId) ==
    [challengerId |-> challengerId,
     opponentId |-> opponentId,
     challengerScore |-> 0,
     opponentScore |-> NULL,
     challengerAnswers |-> 0,
     opponentAnswers |-> NULL,
     status |-> IF opponentId # NULL THEN "active" ELSE "pending",
     winnerId |-> NULL]

\* The winner the opponent's submission computes from the updated row.
Winner(updated) ==
    IF updated.challengerScore > updated.opponentScore THEN updated.challengerId
    ELSE IF updated.opponentScore > updated.challengerScore THEN updated.opponentId
    ELSE NULL

\* Mutant of Joinable: only a completed battle is closed to joining.
JoinableUnlessCompleted(rows, battleId) ==
    battleId \in DOMAIN rows /\ rows[battleId].status # "completed"

\* The battle exists and its status is pending.
Joinable(rows, battleId) ==
    battleId \in DOMAIN rows /\ rows[battleId].status = "pending"

\* Questions come from the generator or, when it fails, from four or more
\* rows of terms (generateFallbackQuestions); otherwise the request fails.
HaveQuestions(generated) == generated \/ Len(terms) >= 4

\* Mutant of NotEnoughXP: only an empty balance is refused.
NotEnoughXPEmpty(points) == points <= 0

\* The save-streak handler's balance check.
NotEnoughXP(points) == points < xpCost

\* No request of the user is between deserializeUser and its handler.
NoUser == [points |-> NULL, wordsLearned |-> NULL]

\* What a handler holds between its read and its write: the request, and the
\* department, term or battle it is about.  Idle: the user has none running.
Idle == [op |-> "none", department |-> "", id |-> 0]

\* The answer to the latest request served today.
NoResponse == [op |-> "none", userId |-> 0, status |-> 0, body |-> ""]

Respond(op, userId, status, body) ==
    /\ response' = [op |-> op, userId |-> userId, status |-> status, body |-> body]
    /\ learnedCalls' = <<>>

\* ---------------------------------------------------------------- requests

\* GET /api/daily-mix/status
DailyMixStatus(u) ==
    /\ UNCHANGED <<users, badges, userBadges, today, reqUser, inflight, learnVars, playVars>>
    /\ LET id == StreakId(dailyStreaks, u)
       IN  IF id = 0
           THEN /\ dailyStreaks' = Append(dailyStreaks, NewStreakRow(u))
                /\ Respond("status", u, 200, "canSaveStreak: false")
           ELSE LET streak == dailyStreaks[id]
                    completedToday == streak.lastCompletedDate = today
                    canSaveStreak == /\ ~completedToday
                                     /\ streak.lastCompletedDate = yesterdayStr(today)
                                     /\ streak.currentStreak > 0
                IN  /\ UNCHANGED dailyStreaks
                    /\ Respond("status", u, 200,
                               IF canSaveStreak THEN "canSaveStreak: true"
                                                ELSE "canSaveStreak: false")

\* GET /api/daily-mix/status in two steps, for a user without a record: the
\* select that finds no row, then the insert and the answer.
DailyMixStatusLookup(u) ==
    /\ inflight[u] = Idle
    /\ StreakId(dailyStreaks, u) = 0
    /\ inflight' = [inflight EXCEPT ![u] = [op |-> "status", department |-> "", id |-> 0]]
    /\ UNCHANGED <<users, badges, userBadges, dailyStreaks, today, learnVars, playVars,
                   response, learnedCalls, reqUser>>

DailyMixStatusInsert(u) ==
    /\ inflight[u].op = "status"
    /\ dailyStreaks' = Append(dailyStreaks, NewStreakRow(u))
    /\ inflight' = [inflight EXCEPT ![u] = Idle]
    /\ Respond("status", u, 200, "canSaveStreak: false")
    /\ UNCHANGED <<users, badges, userBadges, today, reqUser, learnVars, playVars>>

\* POST /api/daily-mix/complete
DailyMixComplete(u, score, totalQuestions) ==
    LET rows == IF StreakId(dailyStreaks, u) = 0
                THEN Append(dailyStreaks, NewStreakRow(u))
                ELSE dailyStreaks
        id == StreakId(rows, u)
        streak == rows[id]
    IN  IF AlreadyCompleted(streak, today)
        THEN /\ dailyStreaks' = rows
             /\ UNCHANGED <<users, badges, userBadges, today, reqUser, inflight, learnVars, playVars>>
             /\ Respond("complete", u, 200, "Already completed today")
        ELSE LET newStreak == NewStreak(streak, today)
                 totalXP == BaseXP(score, totalQuestions) + BonusXP(newStreak)
                 r == addPoints(users, userBadges, u, totalXP)
             IN  /\ users[u].points + totalXP <= MaxPoints
                 /\ dailyStreaks' =
                       [rows EXCEPT ![id] =
                           [@ EXCEPT !.currentStreak = newStreak,
                                     !.longestStreak = NewLongest(streak, newStreak),
                                     !.lastCompletedDate = today,
                                     !.totalDaysCompleted = streak.totalDaysCompleted + 1]]
                 /\ users' = r.users
                 /\ userBadges' = r.userBadges
                 /\ UNCHANGED <<badges, today, reqUser, inflight, learnVars, playVars>>
                 /\ response' = [op |-> "complete", userId |-> u, status |-> 200,
                                 body |-> "success", newStreak |-> newStreak,
                                 bonusXP |-> BonusXP(newStreak),
                                 newBadges |-> NewBadges(newStreak)]
                 /\ learnedCalls' = <<>>

\* POST /api/daily-mix/save-streak, with `user` the row req.user holds.
SaveStreakWith(u, user) ==
    /\ UNCHANGED <<badges, userBadges, today, learnVars, playVars>>
    /\ LET id == StreakId(dailyStreaks, u)
       IN  IF NotEnoughXP(user.points)
           THEN /\ UNCHANGED <<users, dailyStreaks>>
                /\ Respond("save-streak", u, 400, "Not enough XP to save streak")
           ELSE IF id = 0
           THEN /\ UNCHANGED <<users, dailyStreaks>>
                /\ Respond("save-streak", u, 400, "No streak to save")
           ELSE /\ dailyStreaks[id].streakSaversUsed < MaxSavers
                /\ dailyStreaks' =
                      [dailyStreaks EXCEPT ![id] =
                          [@ EXCEPT !.lastCompletedDate = yesterdayStr(today),
                                    !.streakSaversUsed = @ + 1]]
                /\ users' = [users EXCEPT ![u].points = user.points - xpCost]
                /\ Respond("save-streak", u, 200, "success")

\* The request served with nothing in between: req.user is the current row.
SaveStreak(u) ==
    /\ SaveStreakWith(u, users[u])
    /\ UNCHANGED <<reqUser, inflight>>

\* The same request in its two steps: passport's deserializeUser loads the
\* row into req.user, and the handler runs later on that row.
DeserializeUser(u) ==
    /\ reqUser[u] = NoUser
    /\ reqUser' = [reqUser EXCEPT ![u] = users[u]]
    /\ UNCHANGED <<users, badges, userBadges, dailyStreaks, today, learnVars,
                   playVars, response, learnedCalls, inflight>>

SaveStreakHandler(u) ==
    /\ reqUser[u] # NoUser
    /\ SaveStreakWith(u, reqUser[u])
    /\ reqUser' = [reqUser EXCEPT ![u] = NoUser]
    /\ UNCHANGED inflight

\* POST /api/user/points
PostUserPoints(u, points) ==
    LET r == addPoints(users, userBadges, u, points)
    IN  /\ users[u].points + points <= MaxPoints
        /\ users[u].points + points >= -MaxPoints
        /\ users' = r.users
        /\ userBadges' = r.userBadges
        /\ UNCHANGED <<badges, dailyStreaks, today, reqUser, inflight, learnVars, playVars>>
        /\ Respond("points", u, 200, "success")

\* POST /api/admin/award-badge
AdminAwardBadge(userId, badgeId) ==
    /\ userBadges[userId][badgeId] < MaxUserBadgeRows
    /\ userBadges' = awardBadge(userBadges, userId, badgeId)
    /\ UNCHANGED <<users, badges, dailyStreaks, today, reqUser, inflight, learnVars, playVars>>
    /\ Respond("award-badge", userId, 201, "success")

\* POST /api/user/learned-terms/:termId
PostLearnedTerm(u, termId) ==
    LET r == markTermAsLearned(userLearnedTerms, users, u, termId)
        call == [userId |-> u, termId |-> termId,
                 rowsBefore |-> userLearnedTerms[u][termId],
                 wordsLearnedBefore |-> users[u].wordsLearned]
    IN  /\ userLearnedTerms' = r.userLearnedTerms
        /\ users' = r.users
        /\ response' = [op |-> "learned", userId |-> u, status |-> 200,
                        body |-> IF r.inserted THEN "inserted" ELSE "existing"]
        /\ learnedCalls' =
              IF /\ learnedCalls # <<>>
                 /\ learnedCalls[1].userId = u
                 /\ learnedCalls[1].termId = termId
                 /\ Len(learnedCalls) < 2
              THEN Append(learnedCalls, call)
              ELSE <<call>>
        /\ UNCHANGED <<badges, userBadges, dailyStreaks, terms, dailyContent, today, reqUser, inflight,
                       playVars>>

\* POST /api/user/learned-terms/:termId in two steps, as markTermAsLearned
\* awaits between them: the select that finds no row for (userId, termId),
\* then the insert and the recount of wordsLearned.  A select that finds a
\* row answers at once; that is PostLearnedTerm.
MarkLearnedLookup(u, termId) ==
    /\ inflight[u] = Idle
    /\ userLearnedTerms[u][termId] = 0
    /\ inflight' = [inflight EXCEPT ![u] =
                       [op |-> "learned", department |-> "", id |-> termId]]
    /\ UNCHANGED <<users, badges, userBadges, dailyStreaks, today, learnVars, playVars,
                   response, learnedCalls, reqUser>>

MarkLearnedInsert(u) ==
    LET r == markTermAsLearnedUnchecked(userLearnedTerms, users, u, inflight[u].id)
    IN  /\ inflight[u].op = "learned"
        /\ userLearnedTerms' = r.userLearnedTerms
        /\ users' = r.users
        /\ inflight' = [inflight EXCEPT ![u] = Idle]
        /\ Respond("learned", u, 200, "inserted")
        /\ UNCHANGED <<badges, userBadges, dailyStreaks, terms, dailyContent, today,
                       reqUser, playVars>>

\* The daily-content handler past its lookup, for the date the handler
\* computed when it began.  outcome: "generated" when every step succeeds,
\* "no-content" when the generator fails or answers nothing parseable,
\* "content-write-failed" when createDailyContent throws after createTerm,
\* "learned-write-failed" when markTermAsLearned throws after both inserts.
DailyContentGenerate(u, department, date, outcome) ==
    IF outcome = "no-content"
    THEN /\ UNCHANGED <<users, badges, userBadges, dailyStreaks, learnVars, today, playVars>>
         /\ Respond("daily-content", u, 500, "Failed to generate daily content")
    ELSE LET newTerm == Len(terms) + 1
             r == markTermAsLearned(userLearnedTerms, users, u, newTerm)
         IN  /\ Len(terms) < MaxTerms
             /\ terms' = Append(terms, department)
             /\ dailyContent' =
                   IF outcome = "content-write-failed"
                   THEN dailyContent
                   ELSE Append(dailyContent,
                               [department |-> department, date |-> date, termId |-> newTerm])
             /\ userLearnedTerms' = IF outcome = "generated" THEN r.userLearnedTerms
                                                             ELSE userLearnedTerms
             /\ users' = IF outcome = "generated" THEN r.users ELSE users
             /\ UNCHANGED <<badges, userBadges, dailyStreaks, today, playVars>>
             /\ IF outcome = "generated"
                THEN Respond("daily-content", u, 200, "generated")
                ELSE Respond("daily-content", u, 500, "Failed to generate daily content")

\* GET /api/ai/daily-content, served with nothing in between.
GetDailyContentOutcome(u, department, outcome) ==
    LET existing == getDailyContent(dailyContent, department, today)
    IN  /\ UNCHANGED <<reqUser, inflight>>
        /\ IF existing # 0
           THEN LET termId == dailyContent[existing].termId
                    found == termId \in DOMAIN terms /\ terms[termId] = department
                    r == markTermAsLearned(userLearnedTerms, users, u, termId)
                IN  /\ userLearnedTerms' = IF found THEN r.userLearnedTerms ELSE userLearnedTerms
                    /\ users' = IF found THEN r.users ELSE users
                    /\ UNCHANGED <<badges, userBadges, dailyStreaks, terms, dailyContent,
                                   today, playVars>>
                    /\ Respond("daily-content", u, 200, "existing")
           ELSE DailyContentGenerate(u, department, today, outcome)

\* The same request with every database write succeeding; generated tells
\* whether the generator answers with parseable content.
GetDailyContent(u, department, generated) ==
    GetDailyContentOutcome(u, department, IF generated THEN "generated" ELSE "no-content")

\* The same request in two steps: the lookup that finds no row for today, and
\* the rest of the handler once the generator has answered.
DailyContentLookup(u, department) ==
    /\ inflight[u] = Idle
    /\ getDailyContent(dailyContent, department, today) = 0
    /\ inflight' = [inflight EXCEPT ![u] =
                       [op |-> "daily-content", department |-> department, id |-> today]]
    /\ UNCHANGED <<users, badges, userBadges, dailyStreaks, today, learnVars, playVars,
                   response, learnedCalls, reqUser>>

DailyContentCreate(u, outcome) ==
    /\ inflight[u].op = "daily-content"
    /\ DailyContentGenerate(u, inflight[u].department, inflight[u].id, outcome)
    /\ inflight' = [inflight EXCEPT ![u] = Idle]
    /\ UNCHANGED reqUser

\* One run of the scheduled job's generateDailyContentForDepartment (at
\* midnight and at startup); generated is false when the key is missing or
\* the generator's answer cannot be used.
generateDailyContentForDepartment(department, generated) ==
    LET existing == getDailyContent(dailyContent, department, today)
    IN  /\ UNCHANGED <<users, badges, userBadges, dailyStreaks, userLearnedTerms, today,
                       reqUser, inflight, playVars, response, learnedCalls>>
        /\ IF existing # 0 \/ ~generated
           THEN UNCHANGED <<terms, dailyContent>>
           ELSE /\ Len(terms) < MaxTerms
                /\ terms' = Append(terms, department)
                /\ dailyContent' = Append(dailyContent,
                       [department |-> department, date |-> today,
                        termId |-> Len(terms) + 1])

\* POST /api/quizzes
PostQuiz(u, score) ==
    /\ quizzes < MaxQuizzes
    /\ quizzes' = quizzes + 1
    /\ IF score > 0
       THEN LET r == addPoints(users, userBadges, u, 10)
            IN  /\ users[u].points + 10 + score <= MaxPoints
                /\ users' = updateUserStats(r.users, u, score, 1)
                /\ userBadges' = r.userBadges
       ELSE /\ users' = updateUserStats(users, u, 0, 0)
            /\ UNCHANGED userBadges
    /\ UNCHANGED <<badges, dailyStreaks, learnVars, aiDuels, asyncBattles, today, reqUser, inflight>>
    /\ Respond("quiz", u, 201, "created")

\* POST /api/duel/start
DuelStart(u, generated) ==
    /\ UNCHANGED <<users, badges, userBadges, dailyStreaks, learnVars, quizzes,
                   asyncBattles, today, reqUser, inflight>>
    /\ IF ~HaveQuestions(generated)
       THEN /\ UNCHANGED aiDuels
            /\ Respond("duel-start", u, 500, "Failed to start duel")
       ELSE /\ Len(aiDuels) < MaxDuels
            /\ aiDuels' = Append(aiDuels, NewDuelRow(u))
            /\ Respond("duel-start", u, 200, "success")

\* POST /api/duel/complete; the row is updated whoever owns it and whether or
\* not it is completed already, and a duelId without a row updates nothing.
DuelComplete(u, duelId, userScore, aiScore, wrongAnswers, xpEarned) ==
    LET r == addPoints(users, userBadges, u, xpEarned)
    IN  /\ users[u].points + xpEarned <= MaxPoints
        /\ aiDuels' =
              IF duelId \in DOMAIN aiDuels
              THEN [aiDuels EXCEPT ![duelId] =
                      [@ EXCEPT !.userScore = userScore, !.aiScore = aiScore,
                                !.wrongAnswers = wrongAnswers, !.xpEarned = xpEarned,
                                !.completed = TRUE]]
              ELSE aiDuels
        /\ users' = r.users
        /\ userBadges' = r.userBadges
        /\ UNCHANGED <<badges, dailyStreaks, learnVars, quizzes, asyncBattles, today, reqUser, inflight>>
        /\ Respond("duel-complete", u, 200, "success")

\* POST /api/battle/create
BattleCreate(u, opponentId, generated) ==
    /\ UNCHANGED <<users, badges, userBadges, dailyStreaks, learnVars, quizzes,
                   aiDuels, today, reqUser, inflight>>
    /\ IF ~HaveQuestions(generated)
       THEN /\ UNCHANGED asyncBattles
            /\ Respond("battle-create", u, 500, "Failed to create battle")
       ELSE /\ Len(asyncBattles) < MaxBattles
            /\ asyncBattles' = Append(asyncBattles, NewBattleRow(u, opponentId))
            /\ Respond("battle-create", u, 200, "success")

\* POST /api/battle/join/:battleId
BattleJoin(u, battleId) ==
    /\ UNCHANGED <<users, badges, userBadges, dailyStreaks, learnVars, quizzes,
                   aiDuels, today, reqUser, inflight>>
    /\ IF ~Joinable(asyncBattles, battleId)
       THEN /\ UNCHANGED asyncBattles
            /\ Respond("battle-join", u, 400, "Battle not available")
       ELSE /\ asyncBattles' = [asyncBattles EXCEPT ![battleId] =
                                   [@ EXCEPT !.opponentId = u, !.status = "active"]]
            /\ Respond("battle-join", u, 200, "success")

\* POST /api/battle/join/:battleId in two steps: the select that finds the
\* battle pending, then the update and the answer.
BattleJoinLookup(u, battleId) ==
    /\ inflight[u] = Idle
    /\ Joinable(asyncBattles, battleId)
    /\ inflight' = [inflight EXCEPT ![u] =
                       [op |-> "battle-join", department |-> "", id |-> battleId]]
    /\ UNCHANGED <<users, badges, userBadges, dailyStreaks, today, learnVars, playVars,
                   response, learnedCalls, reqUser>>

BattleJoinUpdate(u) ==
    /\ inflight[u].op = "battle-join"
    /\ asyncBattles' = [asyncBattles EXCEPT ![inflight[u].id] =
                           [@ EXCEPT !.opponentId = u, !.status = "active"]]
    /\ inflight' = [inflight EXCEPT ![u] = Idle]
    /\ Respond("battle-join", u, 200, "success")
    /\ UNCHANGED <<users, badges, userBadges, dailyStreaks, learnVars, quizzes,
                   aiDuels, today, reqUser>>

\* POST /api/battle/submit/:battleId
BattleSubmit(u, battleId, answers, score) ==
    /\ UNCHANGED <<badges, dailyStreaks, learnVars, quizzes, aiDuels, today, reqUser, inflight>>
    /\ IF battleId \notin DOMAIN asyncBattles
       THEN /\ UNCHANGED <<users, userBadges, asyncBattles>>
            /\ Respond("battle-submit", u, 404, "Battle not found")
       ELSE LET battle == asyncBattles[battleId]
            IN  IF battle.challengerId = u
                THEN /\ asyncBattles' = [asyncBattles EXCEPT ![battleId] =
                                            [@ EXCEPT !.challengerAnswers = answers,
                                                      !.challengerScore = score]]
                     /\ UNCHANGED <<users, userBadges>>
                     /\ Respond("battle-submit", u, 200, "success")
                ELSE LET updated == [battle EXCEPT !.opponentAnswers = answers,
                                                   !.opponentScore = score]
                         winnerId == Winner(updated)
                         r == addPoints(users, userBadges, winnerId, 50)
                     IN  \* challengerScore is never null, score is a number
                         /\ asyncBattles' = [asyncBattles EXCEPT ![battleId] =
                               [updated EXCEPT !.status = "completed", !.winnerId = winnerId]]
                         /\ IF winnerId # NULL
                            THEN /\ winnerId \in Users => users[winnerId].points + 50 <= MaxPoints
                                 /\ users' = r.users
                                 /\ userBadges' = r.userBadges
                            ELSE UNCHANGED <<users, userBadges>>
                         /\ Respond("battle-submit", u, 200, "success")

\* Midnight passes.
NextDay ==
    /\ today < MaxDay
    /\ today' = today + 1
    /\ response' = NoResponse
    /\ learnedCalls' = <<>>
    /\ UNCHANGED <<users, badges, userBadges, dailyStreaks, learnVars, playVars, reqUser, inflight>>

\* ------------------------------------------------------------ specification

\* The catalog is seeded; the users start with one of these balances and
\* the point badges that balance has earned; nobody has a streak record yet.
Init ==
    /\ badges \in {SeedBadges, PartialBadges}
    /\ \E p \in InitPoints : \E q \in OtherPoints :
          /\ users = [u \in Users |-> [points |-> IF u = 1 THEN p ELSE q, wordsLearned |-> 0]]
          /\ userBadges = [u \in Users |->
                             [b \in BadgeIds |->
                                 IF b \in EarnedAt(badges, users[u].points) THEN 1 ELSE 0]]
    /\ dailyStreaks = <<>>
    /\ userLearnedTerms = [u \in Users |-> [t \in TermIds |-> 0]]
    /\ terms = <<>>
    /\ dailyContent = <<>>
    /\ quizzes = 0
    /\ aiDuels = <<>>
    /\ asyncBattles = <<>>
    /\ today = 1
    /\ response = NoResponse
    /\ learnedCalls = <<>>
    /\ reqUser = [u \in Users |-> NoUser]
    /\ inflight = [u \in Users |-> Idle]

\* ---- the daily-mix requests (streak tracker) ----

\* <<userId, score, totalQuestions>> of the completion requests served.
StreakCompleteInputs == { <<1, 0, 5>>, <<1, 5, 5>>, <<2, 5, 5>> }
\* The users who buy streak savers.
StreakSavers == {1}

Status == \E u \in Users : DailyMixStatus(u)
\* The user's record, if any, has not been advanced on MaxStreak days yet or
\* is completed for today.
WithinMaxStreak(u) ==
    \A i \in DOMAIN dailyStreaks :
        dailyStreaks[i].userId = u
        => \/ AlreadyCompleted(dailyStreaks[i], today)
           \/ dailyStreaks[i].totalDaysCompleted < MaxStreak

Complete ==
    \E in \in StreakCompleteInputs :
        /\ WithinMaxStreak(in[1])
        /\ DailyMixComplete(in[1], in[2], in[3])
Save == \E u \in StreakSavers : SaveStreak(u)

NextStreak ==
    \/ Status
    \/ Complete
    \/ Save
    \/ NextDay

SpecStreak == Init /\ [][NextStreak]_vars

\* ---- the learned-terms ledger and the requests that write wordsLearned ----

Departments == {"Engineering"}
\* The quiz scores submitted.
QuizScores == {0, 40}
\* The users who take quizzes.
QuizTakers == {1}

Learned == \E u \in Users : \E t \in TermIds : PostLearnedTerm(u, t)
Content == \E u \in Users : \E d \in Departments : \E g \in BOOLEAN : GetDailyContent(u, d, g)
Quiz == \E u \in QuizTakers : \E s \in QuizScores : PostQuiz(u, s)

NextLedger ==
    \/ Learned
    \/ Content
    \/ Quiz
    \/ NextDay

SpecLedger == Init /\ [][NextLedger]_vars

\* ---- the requests that add points and award badges ----

\* <<userId, points>> of the points requests served.
PointsCalls == { <<1, p>> : p \in PointsInputs } \cup { <<2, 60>> }
\* <<userId, badgeId>> of the admin's award requests.
AwardCalls == { <<1, 7>>, <<2, 1>> }

Points == \E in \in PointsCalls : PostUserPoints(in[1], in[2])
Award == \E in \in AwardCalls : AdminAwardBadge(in[1], in[2])

NextPoints ==
    \/ Points
    \/ Quiz
    \/ Award

SpecPoints == Init /\ [][NextPoints]_vars

\* ---- duels, and battles ----

\* <<duelId, userScore, aiScore, wrongAnswers, xpEarned>> a client reports.
DuelResults == { <<1, 8, 5, 2, 50>>, <<1, 3, 6, 7, 10>> }
\* The opponent a challenger names: nobody, a user, or an id without a user.
Opponents == {NULL} \cup {2} \cup MissingUsers
BattleScores == {5, 8}
\* The length of the answers array a submission carries.
BattleAnswers == {10}
Challengers == {1}
Duelists == {1}

StartDuel == \E u \in Duelists : \E g \in BOOLEAN : DuelStart(u, g)
CompleteDuel == \E u \in Duelists : \E d \in DuelResults : DuelComplete(u, d[1], d[2], d[3], d[4], d[5])
CreateBattle == \E u \in Challengers : \E o \in Opponents : \E g \in BOOLEAN : BattleCreate(u, o, g)
JoinBattle == \E u \in Users : \E b \in 1..MaxBattles : BattleJoin(u, b)
SubmitBattle ==
    \E u \in Users : \E b \in 1..MaxBattles : \E a \in BattleAnswers : \E s \in BattleScores :
        BattleSubmit(u, b, a, s)

NextDuel ==
    \/ StartDuel
    \/ CompleteDuel

SpecDuel == Init /\ [][NextDuel]_vars

NextBattle ==
    \/ CreateBattle
    \/ JoinBattle
    \/ SubmitBattle

\* The battles start with the challenger close to the Bronze Shield threshold.
InitBattle == Init /\ users[1].points = 950

SpecBattle == InitBattle /\ [][NextBattle]_vars

\* ------------------------------------------------------------------ claims

HasStreak(u) == StreakId(dailyStreaks, u) # 0
StreakOf(u) == dailyStreaks[StreakId(dailyStreaks, u)]

\* A completion request of user u, whatever its body.
CompleteBy(u) == \E in \in MixInputs : DailyMixComplete(u, in[1], in[2])

C2_ContinuationLaw ==
    [][\A u \in Users :
          CompleteBy(u) =>
             /\ (HasStreak(u) /\ StreakOf(u).lastCompletedDate = today - 1)
                => StreakOf(u)'.currentStreak = StreakOf(u).currentStreak + 1
             /\ (HasStreak(u) /\ StreakOf(u).lastCompletedDate # NULL
                              /\ StreakOf(u).lastCompletedDate <= today - 2)
                => StreakOf(u)'.currentStreak = 1
             /\ (~HasStreak(u) \/ (HasStreak(u) /\ StreakOf(u).lastCompletedDate = NULL))
                => StreakOf(u)'.currentStreak = 1]_vars

\* A streak that was continued to 2 and then, after a skipped day and with no
\* saver bought, reset to 1 by the completion just served.
C2_Witness ==
    /\ response.op = "complete" /\ response.userId = 1 /\ response.body = "success"
   
    /\ HasStreak(1)
    /\ StreakOf(1).lastCompletedDate = today
    /\ StreakOf(1).currentStreak = 1
    /\ StreakOf(1).longestStreak >= 2
    /\ StreakOf(1).streakSaversUsed = 0

\* C3: every streak record has longestStreak >= currentStreak.
C3_LongestAtLeastCurrent ==
    \A i \in DOMAIN dailyStreaks :
        dailyStreaks[i].longestStreak >= dailyStreaks[i].currentStreak

\* A record whose streak was reset below its longest, with a saver bought.
C3_Witness ==
    \E i \in DOMAIN dailyStreaks :
        /\ dailyStreaks[i].currentStreak >= 1
        /\ dailyStreaks[i].longestStreak > dailyStreaks[i].currentStreak
        /\ dailyStreaks[i].streakSaversUsed >= 1

\* C4: a completion request made while lastCompletedDate is today adds no
\* points to anyone and inserts no user_badges row.
C4_ReplayAwardsNothing ==
    [][\A u \in Users :
          (HasStreak(u) /\ StreakOf(u).lastCompletedDate = today /\ CompleteBy(u))
          => /\ users' = users
             /\ userBadges' = userBadges]_vars

\* A replay answered for a user whose balance shows one completion's XP only.
C4_Witness ==
    /\ response.op = "complete" /\ response.userId = 1
    /\ response.body = "Already completed today"
    /\ HasStreak(1) /\ StreakOf(1).lastCompletedDate = today
    /\ StreakOf(1).totalDaysCompleted = 1
    /\ users[1].points = 980

\* C5: after two consecutive mark-learned requests for a pair (u, t) that had
\* no row before the first, there is exactly one row for (u, t) and
\* wordsLearned is 1 more than it was before the first request.
C5_MarkTwice ==
    (Len(learnedCalls) = 2 /\ learnedCalls[1].rowsBefore = 0)
    => LET u == learnedCalls[1].userId
           t == learnedCalls[1].termId
       IN  /\ userLearnedTerms[u][t] = 1
           /\ users[u].wordsLearned = learnedCalls[1].wordsLearnedBefore + 1

\* C6: every user's wordsLearned is the number of the user's learned-term rows.
C6_WordsLearnedIsCount ==
    \A u \in Users : users[u].wordsLearned = LearnedCount(userLearnedTerms, u)

\* The user badges due at a balance: a catalog badge whose threshold the
\* balance meets or exceeds.
Due(points) == EarnedAt(badges, points)

PointsBy(u, p) == PostUserPoints(u, p) /\ <<u, p>> \in PointsCalls

\* C7: no (user, badge) pair has more than one user_badges row, the admin's
\* awards included.
C7_OneRowPerBadge ==
    \A u \in Users : \A b \in BadgeIds : userBadges[u][b] <= 1

\* C8: a points request for a user with a row leaves the balance at the old
\* balance plus the amount, changes no other user, and leaves the user
\* holding every catalog badge whose threshold the new balance meets.
C8_AddPoints ==
    [][\A c \in PointsCalls :
          PointsBy(c[1], c[2])
          => /\ users'[c[1]].points = users[c[1]].points + c[2]
             /\ \A v \in Users \ {c[1]} : users'[v] = users[v]
             /\ \A b \in Due(users'[c[1]].points) : userBadges'[c[1]][b] >= 1]_vars

\* 950 + 60 = 1010: the balance crossed 1000 and Bronze Shield is held.
C8_Witness ==
    /\ response.op = "points" /\ response.userId = 1
    /\ users[1].points = 1010
    /\ badges = SeedBadges
    /\ userBadges[1][7] = 1
    /\ quizzes = 0

\* C9: whenever no request is in progress, every user holds every catalog
\* badge whose threshold the user's balance meets.
C9_ThresholdsAlwaysEvaluated ==
    \A u \in Users : \A b \in Due(users[u].points) : userBadges[u][b] >= 1

\* C10: a battle submission that makes a user id without a row the winner, and
\* so adds points for it, is answered with a not-found error and changes
\* neither the users nor their badges.
C10_MissingUserNotFound ==
    [][\A u \in Users : \A b \in 1..MaxBattles : \A a \in BattleAnswers : \A s \in BattleScores :
          ( /\ BattleSubmit(u, b, a, s)
            /\ b \in DOMAIN asyncBattles
            /\ asyncBattles[b].challengerId # u
            /\ asyncBattles'[b].winnerId \in MissingUsers )
          => /\ response'.status = 404
             /\ users' = users
             /\ userBadges' = userBadges]_vars

\* A side has submitted once its answers are stored: the challenger's answers
\* are no longer the empty default, the opponent's are no longer null.
BothSubmitted(row) == row.challengerAnswers # 0 /\ row.opponentAnswers # NULL

\* The side with the strictly higher score, nobody on a tie.
HigherScorer(row) ==
    IF row.challengerScore > row.opponentScore THEN row.challengerId
    ELSE IF row.opponentScore > row.challengerScore THEN row.opponentId
    ELSE NULL

SubmitBy(u, b) ==
    \E a \in BattleAnswers : \E s \in BattleScores : BattleSubmit(u, b, a, s)

\* C11: once both sides of a battle have submitted, in either order, winnerId
\* is the side with the strictly higher score, and null on equal scores.
C11_WinnerIsHigherScorer ==
    \A b \in DOMAIN asyncBattles :
        BothSubmitted(asyncBattles[b])
        => asyncBattles[b].winnerId = HigherScorer(asyncBattles[b])

\* C12: winnerId is non-null only if both sides have submitted.
C12_WinnerOnlyAfterBoth ==
    \A b \in DOMAIN asyncBattles :
        asyncBattles[b].winnerId # NULL => BothSubmitted(asyncBattles[b])

\* C13: a battle starts pending (no opponent) or active (opponent named), and
\* its status changes only from pending to active, with an opponent, and from
\* active to completed, with both sides' submissions in.
C13_StatusPath ==
    [][\A b \in DOMAIN asyncBattles' :
          LET new == asyncBattles'[b]
          IN  IF b \notin DOMAIN asyncBattles
              THEN \/ new.status = "pending" /\ new.opponentId = NULL
                   \/ new.status = "active" /\ new.opponentId # NULL
              ELSE LET old == asyncBattles[b]
                   IN  \/ new.status = old.status
                       \/ /\ old.status = "pending" /\ new.status = "active"
                          /\ new.opponentId # NULL
                       \/ /\ old.status = "active" /\ new.status = "completed"
                          /\ BothSubmitted(new)]_vars

\* C14: a join request for a battle that does not exist or is not pending is
\* answered 400 "Battle not available" and changes no battle.
C14_JoinRejected ==
    [][\A u \in Users : \A b \in 1..MaxBattles :
          ( /\ BattleJoin(u, b)
            /\ (b \notin DOMAIN asyncBattles \/ asyncBattles[b].status # "pending") )
          => /\ response'.status = 400
             /\ response'.body = "Battle not available"
             /\ asyncBattles' = asyncBattles]_vars

\* A join was just rejected on a completed battle whose opponent is user 2.
C14_Witness ==
    /\ response.op = "battle-join" /\ response.status = 400
    /\ Len(asyncBattles) = 1
    /\ asyncBattles[1].status = "completed"
    /\ asyncBattles[1].opponentId = 2
    /\ asyncBattles[1].winnerId = 2

\* C15: a submit call changes points only when it takes the battle to
\* completed with a winner, and then adds exactly 50 to the winner alone;
\* every other submit call changes nobody's points.
C15_PointsOnlyAtCompletion ==
    [][\A u \in Users : \A b \in 1..MaxBattles :
          (SubmitBy(u, b) /\ b \in DOMAIN asyncBattles)
          => LET old == asyncBattles[b]
                 new == asyncBattles'[b]
             IN  IF /\ old.status # "completed" /\ new.status = "completed"
                    /\ new.winnerId \in Users
                 THEN users' = [users EXCEPT ![new.winnerId].points = @ + 50]
                 ELSE users' = users]_vars

\* C16: a save-streak request by a user with fewer than 50 points is answered
\* 400 "Not enough XP to save streak" and changes neither the streak records
\* nor anybody's points.
C16_SaveNeedsXP ==
    [][\A u \in Users :
          (SaveStreak(u) /\ users[u].points < 50)
          => /\ response'.status = 400
             /\ response'.body = "Not enough XP to save streak"
             /\ dailyStreaks' = dailyStreaks
             /\ users' = users]_vars

\* User 1, with 30 points and yesterday's completion on record, was refused.
C16_Witness ==
    /\ response.op = "save-streak" /\ response.userId = 1
    /\ response.status = 400
    /\ response.body = "Not enough XP to save streak"
    /\ users[1].points = 30
    /\ HasStreak(1)
    /\ StreakOf(1).currentStreak = 1
    /\ StreakOf(1).lastCompletedDate = today - 1
    /\ StreakOf(1).streakSaversUsed = 0

\* The streak states in which a save is allowed: not completed today, a chain
\* running, and the last completion two days back (exactly yesterday missed)
\* or, as the status route's canSaveStreak reads it, yesterday.
SaveAllowed(u) ==
    /\ HasStreak(u)
    /\ StreakOf(u).lastCompletedDate # NULL
    /\ StreakOf(u).lastCompletedDate # today
    /\ StreakOf(u).lastCompletedDate \in {today - 2, yesterdayStr(today)}
    /\ StreakOf(u).currentStreak > 0

\* C17: a save-streak request made in any other streak state changes neither
\* the streak records nor anybody's points.
C17_SaveOnlyWhenAllowed ==
    [][\A u \in Users :
          (SaveStreak(u) /\ ~SaveAllowed(u))
          => /\ dailyStreaks' = dailyStreaks
             /\ users' = users]_vars

\* ---- one save-streak request running alongside the user's other requests ----

\* <<userId, points>> of the points requests served meanwhile.
RacePoints == { <<1, 60>> }
RaceSavers == {1}

RaceStatus == \E u \in RaceSavers : DailyMixStatus(u)
RaceLoad == \E u \in RaceSavers : DeserializeUser(u)
RaceSave == \E u \in RaceSavers : SaveStreakHandler(u)
RaceAdd == \E in \in RacePoints : PostUserPoints(in[1], in[2])

NextRace ==
    \/ RaceStatus
    \/ RaceLoad
    \/ RaceSave
    \/ RaceAdd
    \/ Quiz

SpecRace == Init /\ [][NextRace]_vars

\* C18: every change of a user's balance is an increment of the balance at
\* that moment, so no concurrent update is lost: a points request adds its
\* amount, a quiz adds 10 + score, a successful save-streak subtracts 50.
C18_RelativeIncrements ==
    [][\A u \in Users :
          /\ \A in \in RacePoints :
                (in[1] = u /\ PostUserPoints(u, in[2]))
                => users'[u].points = users[u].points + in[2]
          /\ \A s \in QuizScores :
                (PostQuiz(u, s) /\ s > 0)
                => users'[u].points = users[u].points + 10 + s
          /\ (SaveStreakHandler(u) /\ response'.status = 200)
                => users'[u].points = users[u].points - 50]_vars

\* C19: every user's balance is non-negative in every reachable state.
C19_PointsNonNegative ==
    \A u \in Users : users[u].points >= 0

\* ---- the daily content cache: requests and the scheduled job ----

\* The departments of the seeded users.
ContentDepartments == {"Engineering", "Governance, Risk, and Compliance"}

ContentRequest ==
    \E u \in Users : \E d \in ContentDepartments : \E g \in BOOLEAN : GetDailyContent(u, d, g)
ContentJob ==
    \E d \in ContentDepartments : \E g \in BOOLEAN : generateDailyContentForDepartment(d, g)

\* The requests one of whose database writes fails.
WriteFailures == {"content-write-failed", "learned-write-failed"}
ContentFailure ==
    \E u \in Users : \E d \in ContentDepartments : \E o \in WriteFailures :
        GetDailyContentOutcome(u, d, o)

NextContent ==
    \/ ContentRequest
    \/ ContentJob
    \/ ContentFailure
    \/ NextDay

\* Balances and badges play no part here: one start suffices.
InitContent == Init /\ badges = SeedBadges /\ users[1].points = 0

SpecContent == InitContent /\ [][NextContent]_vars

\* A daily_content row exists for the department and today.
HasContent(d) ==
    \E i \in DOMAIN dailyContent :
        dailyContent[i].department = d /\ dailyContent[i].date = today

\* C20: while a row exists for (department, today), a daily-content request
\* for the department is answered with the existing row whatever the generator
\* would have answered, and neither it nor a run of the scheduled job for the
\* department inserts a terms row or a daily_content row.
C20_ExistingContentKept ==
    [][\A d \in ContentDepartments : \A g \in BOOLEAN :
          HasContent(d)
          => /\ \A u \in Users :
                   GetDailyContent(u, d, g)
                   => /\ response'.status = 200
                      /\ response'.body = "existing"
                      /\ terms' = terms
                      /\ dailyContent' = dailyContent
             /\ generateDailyContentForDepartment(d, g)
                   => /\ terms' = terms
                      /\ dailyContent' = dailyContent]_vars

\* User 2 was served the row the job or user 1's request created today, and
\* the term was marked learned for user 2 alone.
C20_Witness ==
    /\ response.op = "daily-content" /\ response.userId = 2
    /\ response.body = "existing"
    /\ Len(dailyContent) = 1 /\ Len(terms) = 1
    /\ dailyContent[1].date = today
    /\ userLearnedTerms[2][1] = 1
    /\ userLearnedTerms[1][1] = 0

\* ---- daily-content requests overlapping each other and the job ----

ContentOutcomes == {"generated", "no-content"}

RaceLookup == \E u \in Users : \E d \in ContentDepartments : DailyContentLookup(u, d)
RaceCreate == \E u \in Users : \E o \in ContentOutcomes : DailyContentCreate(u, o)

NextContentRace ==
    \/ RaceLookup
    \/ RaceCreate
    \/ ContentRequest
    \/ ContentJob

SpecContentRace == InitContent /\ [][NextContentRace]_vars

\* C21: there is at most one daily_content row per (department, date).
C21_OneContentPerDay ==
    \A i, j \in DOMAIN dailyContent :
        ( /\ dailyContent[i].department = dailyContent[j].department
          /\ dailyContent[i].date = dailyContent[j].date )
        => i = j

\* C22: a daily-content request that fails leaves no terms row and no
\* daily_content row behind.
C22_AllOrNothing ==
    [][\A u \in Users : \A d \in ContentDepartments :
       \A o \in ContentOutcomes \cup WriteFailures :
          (GetDailyContentOutcome(u, d, o) /\ response'.status = 500)
          => /\ terms' = terms
             /\ dailyContent' = dailyContent]_vars

\* C23: a complete call for a duel that is already completed leaves the duel
\* row as stored and adds no points to any user.
C23_CompletedDuelImmutable ==
    [][\A u \in Duelists : \A d \in DuelResults :
          ( /\ d[1] \in DOMAIN aiDuels
            /\ aiDuels[d[1]].completed
            /\ DuelComplete(u, d[1], d[2], d[3], d[4], d[5]) )
          => /\ aiDuels' = aiDuels
             /\ users' = users]_vars

\* ---- mark-learned requests that overlap ----

LearnLookup == \E u \in Users : \E t \in TermIds : MarkLearnedLookup(u, t)
LearnInsert == \E u \in Users : MarkLearnedInsert(u)

NextLearnRace ==
    \/ LearnLookup
    \/ LearnInsert
    \/ Learned
    \/ Content

SpecLearnRace == Init /\ [][NextLearnRace]_vars

\* C24: there is at most one user_learned_terms row per (userId, termId).
C24_OneLearnedRowPerTerm ==
    \A u \in Users : \A t \in TermIds : userLearnedTerms[u][t] <= 1

\* ---- completions along a run of consecutive days ----

\* The record of user 1 after run completed days in a row, the last of them
\* the day before day 1; a fresh record when run is 0.
RunRow(run) ==
    [NewStreakRow(1) EXCEPT !.currentStreak = run, !.longestStreak = run,
                            !.lastCompletedDate = IF run = 0 THEN NULL ELSE 0,
                            !.totalDaysCompleted = run]

InitBonus ==
    /\ badges = SeedBadges
    /\ users = [u \in Users |-> [points |-> IF u = 1 THEN 0 ELSE 1000, wordsLearned |-> 0]]
    /\ userBadges = [u \in Users |->
                       [b \in BadgeIds |->
                           IF b \in EarnedAt(badges, users[u].points) THEN 1 ELSE 0]]
    /\ \E run \in 0..MaxRun : dailyStreaks = <<RunRow(run)>>
    /\ userLearnedTerms = [u \in Users |-> [t \in TermIds |-> 0]]
    /\ terms = <<>>
    /\ dailyContent = <<>>
    /\ quizzes = 0
    /\ aiDuels = <<>>
    /\ asyncBattles = <<>>
    /\ today = 1
    /\ response = NoResponse
    /\ learnedCalls = <<>>
    /\ reqUser = [u \in Users |-> NoUser]
    /\ inflight = [u \in Users |-> Idle]

RunComplete == \E in \in MixInputs : DailyMixComplete(1, in[1], in[2])

NextBonus ==
    \/ RunComplete
    \/ NextDay

SpecBonus == InitBonus /\ [][NextBonus]_vars

\* C25: a first-of-the-day completion answers with 50 XP and "Streak
\* Starter" when the new streak is 3, 100 XP and "Weekly Warrior" when it is
\* 7, 500 XP and "Monthly Master" when it is 30, and with 0 XP and no badge
\* name for every other streak.
C25_MilestoneBonus ==
    (response.op = "complete" /\ response.body = "success")
    => LET n == response.newStreak
           bonus == response.bonusXP
           names == response.newBadges
       IN  /\ n = StreakOf(response.userId).currentStreak
           /\ n = 3 => (bonus = 50 /\ names = <<"Streak Starter">>)
           /\ n = 7 => (bonus = 100 /\ names = <<"Weekly Warrior">>)
           /\ n = 30 => (bonus = 500 /\ names = <<"Monthly Master">>)
           /\ n \notin {3, 7, 30} => (bonus = 0 /\ names = <<>>)

C25_Witness ==
    /\ response.op = "complete"
    /\ response.body = "success"
    /\ response.newStreak = 30
    /\ response.bonusXP = 500
    /\ response.newBadges = <<"Monthly Master">>

\* ---- daily-mix requests that overlap ----

StatusLookup == \E u \in Users : DailyMixStatusLookup(u)
StatusInsert == \E u \in Users : DailyMixStatusInsert(u)

NextStreakRace ==
    \/ StatusLookup
    \/ StatusInsert
    \/ Status
    \/ Complete

SpecStreakRace == InitContent /\ [][NextStreakRace]_vars

\* C26: there is at most one daily_streaks row per user.
C26_OneStreakRowPerUser ==
    \A i, j \in DOMAIN dailyStreaks :
        dailyStreaks[i].userId = dailyStreaks[j].userId => i = j

\* C27: a record is advanced at most once per calendar day, so from an empty
\* table on day 1 no record counts more completed days than days have begun.
C27_OneAdvancePerDay ==
    \A i \in DOMAIN dailyStreaks :
        /\ dailyStreaks[i].totalDaysCompleted <= today
        /\ dailyStreaks[i].currentStreak <= today

\* C28: a submit by a user who is neither the challenger nor the opponent of
\* the battle leaves the battle row as it is and awards no points.
C28_OutsiderSubmitIgnored ==
    [][\A u \in Users : \A b \in DOMAIN asyncBattles :
          ( /\ asyncBattles[b].challengerId # u
            /\ asyncBattles[b].opponentId # u
            /\ SubmitBy(u, b) )
          => /\ asyncBattles' = asyncBattles
             /\ users' = users]_vars

\* C30: the opponent of a battle is nobody or somebody other than its
\* challenger.
C30_OpponentIsNotChallenger ==
    \A b \in DOMAIN asyncBattles :
        \/ asyncBattles[b].opponentId = NULL
        \/ asyncBattles[b].opponentId # asyncBattles[b].challengerId

\* ---- battle requests that overlap ----

JoinLookup == \E u \in Users : \E b \in 1..MaxBattles : BattleJoinLookup(u, b)
JoinUpdate == \E u \in Users : BattleJoinUpdate(u)

NextJoinRace ==
    \/ JoinLookup
    \/ JoinUpdate
    \/ CreateBattle
    \/ JoinBattle
    \/ SubmitBattle

SpecJoinRace == InitBattle /\ [][NextJoinRace]_vars

\* C29: a battle whose status is completed stays completed.
C29_CompletedStaysCompleted ==
    [][\A b \in DOMAIN asyncBattles :
          asyncBattles[b].status = "completed"
          => asyncBattles'[b].status = "completed"]_vars

====
